---------------------------- MODULE Spec2Model ----------------------------
(***************************************************************************)
(* Model of the signing / webhook-verification core of the X-Pay Node SDK  *)
(* (src/src/xpay.ts).  JavaScript values are tagged records, strings are    *)
(* TLA+ strings built by concatenation exactly as the template literals of *)
(* the source build them, and exceptions are explicit results so that the  *)
(* try/catch structure of verifyWebhook and parseWebhook is visible.       *)
(***************************************************************************)
EXTENDS Integers, Sequences, FiniteSets, TLC

VARIABLES apiSecret, now, call, pending

vars == <<apiSecret, now, call, pending>>

---------------------------------------------------------------------------
(* Bounds of the model.                                                    *)

\* the clock value (Unix seconds) at construction
Now0 == 1000
\* how many seconds the clock may advance
MaxTicks == 2
\* how many posts may await their response at the same time
MaxInFlight == 2
\* how many elements a sequence of the serializer's payloads may hold
MaxItems == 2

\* the replay window of verifyWebhook, in seconds
ReplayWindow == 30

---------------------------------------------------------------------------
(* JavaScript values.                                                      *)

\* A value is a record tagged with its type; each type keeps its content in a
\* field of its own name, so that no field holds values of two kinds.
JUndef == [t |-> "undef"]
JNull == [t |-> "null"]
JNaN == [t |-> "nan"]
JBool(b) == [t |-> "bool", b |-> b]
JNum(n) == [t |-> "num", n |-> n]
JStr(s) == [t |-> "str", s |-> s]
JArr(items) == [t |-> "arr", items |-> items]
\* a function, with its source text
JFn(src) == [t |-> "fn", src |-> src]
\* an object is the sequence of its entries, in insertion order
JObj(entries) == [t |-> "obj", entries |-> entries]
KV(k, v) == [k |-> k, v |-> v]

\* typeof value
TypeOf(x) ==
  CASE x.t \in {"null", "arr", "obj"} -> "object"
    [] x.t \in {"num", "nan"} -> "number"
    [] x.t = "str" -> "string"
    [] x.t = "bool" -> "boolean"
    [] x.t = "fn" -> "function"
    [] OTHER -> "undefined"

\* ToBoolean, as the || operator applies it
Truthy(x) ==
  CASE x.t \in {"undef", "null", "nan"} -> FALSE
    [] x.t = "bool" -> x.b
    [] x.t = "num" -> x.n # 0
    [] x.t = "str" -> x.s # ""
    [] OTHER -> TRUE

\* a || b
OrElse(a, b) == IF Truthy(a) THEN a ELSE b

RECURSIVE JoinStrings(_, _)
\* Array.prototype.join on strings
JoinStrings(ss, sep) ==
  IF Len(ss) = 0 THEN ""
  ELSE IF Len(ss) = 1 THEN ss[1]
  ELSE ss[1] \o sep \o JoinStrings(Tail(ss), sep)

RECURSIVE ToText(_)
\* String(value), the conversion a template literal applies
ToText(x) ==
  CASE x.t = "undef" -> "undefined"
    [] x.t = "null" -> "null"
    [] x.t = "nan" -> "NaN"
    [] x.t = "bool" -> IF x.b THEN "true" ELSE "false"
    [] x.t = "num" -> ToString(x.n)
    [] x.t = "str" -> x.s
    [] x.t = "fn" -> x.src
    [] x.t = "arr" ->
         JoinStrings([i \in 1..Len(x.items) |->
                        IF x.items[i].t \in {"null", "undef"} THEN ""
                        ELSE ToText(x.items[i])],
                     ",")
    [] OTHER -> "[object Object]"

\* the text Array.prototype.join gives one element
JoinText(x) == IF x.t \in {"null", "undef"} THEN "" ELSE ToText(x)

\* the integers a numeric string of the model may denote
NumRange == 0 .. (Now0 + MaxTicks + 2 * ReplayWindow + 2)

\* Number(value)
ToNumber(x) ==
  LET ofText(s) ==
        IF s = "" THEN JNum(0)
        ELSE IF \E n \in NumRange : ToString(n) = s
             THEN JNum(CHOOSE n \in NumRange : ToString(n) = s)
             ELSE JNaN
  IN CASE x.t \in {"num", "nan"} -> x
       [] x.t = "undef" -> JNaN
       [] x.t = "null" -> JNum(0)
       [] x.t = "bool" -> JNum(IF x.b THEN 1 ELSE 0)
       [] x.t = "str" -> ofText(x.s)
       [] x.t = "arr" -> ofText(ToText(x))
       [] OTHER -> JNaN

\* Math.abs(a - b) > w on numbers: every comparison with NaN is false
AbsDiffExceeds(a, b, w) ==
  /\ a.t = "num"
  /\ b.t = "num"
  /\ (IF a.n >= b.n THEN a.n - b.n ELSE b.n - a.n) > w

\* value.key: a result [threw, v]; reading a property of null or undefined
\* raises a TypeError, a missing property reads as undefined
GetProp(x, key) ==
  IF x.t \in {"null", "undef"} THEN [threw |-> TRUE, v |-> JUndef]
  ELSE IF x.t = "obj" /\ \E i \in 1..Len(x.entries) : x.entries[i].k = key
       THEN [threw |-> FALSE,
             v |-> x.entries[CHOOSE i \in 1..Len(x.entries) :
                               /\ x.entries[i].k = key
                               /\ \A j \in (i+1)..Len(x.entries) :
                                    x.entries[j].k # key].v]
       ELSE [threw |-> FALSE, v |-> JUndef]

\* a < b as numbers, for texts of decimal digits without leading zeros
IndexLess(a, b) ==
  LET DigitOf(c) == CHOOSE d \in 0..9 : ToString(d) = c
  IN  \/ Len(a) < Len(b)
      \/ /\ Len(a) = Len(b)
         /\ \E i \in 1..Len(a) :
              /\ SubSeq(a, 1, i - 1) = SubSeq(b, 1, i - 1)
              /\ DigitOf(SubSeq(a, i, i)) < DigitOf(SubSeq(b, i, i))

\* the key is an array index: the canonical decimal text of an integer from
\* 0 to 2^32 - 2
IsArrayIndex(k) ==
  /\ Len(k) >= 1
  /\ Len(k) <= Len("4294967294")
  /\ \A i \in 1..Len(k) :
       SubSeq(k, i, i) \in {"0", "1", "2", "3", "4", "5", "6", "7", "8", "9"}
  /\ (Len(k) > 1 => SubSeq(k, 1, 1) # "0")
  /\ ~IndexLess("4294967294", k)

\* the own properties of an object in the order the language lists them:
\* array-index keys in ascending numeric order, then the other keys in the
\* order of their insertion
OwnPropertyOrder(entries) ==
  LET idx == SelectSeq(entries, LAMBDA e : IsArrayIndex(e.k))
      IndexRank(j) ==
        Cardinality({k \in 1..Len(idx) :
                       \/ IndexLess(idx[k].k, idx[j].k)
                       \/ idx[k].k = idx[j].k /\ k < j})
  IN  [i \in 1..Len(idx) |-> idx[CHOOSE j \in 1..Len(idx) : IndexRank(j) = i - 1]]
        \o SelectSeq(entries, LAMBDA e : ~IsArrayIndex(e.k))

\* Object.entries(value): a result [threw, es]; null and undefined raise a
\* TypeError, an array lists its indices and a string the indices of its
\* characters, a number, boolean or function has no entries
ObjectEntries(x) ==
  CASE x.t \in {"null", "undef"} -> [threw |-> TRUE, es |-> <<>>]
    [] x.t = "obj" -> [threw |-> FALSE, es |-> OwnPropertyOrder(x.entries)]
    [] x.t = "arr" ->
         [threw |-> FALSE,
          es |-> [i \in 1..Len(x.items) |-> KV(ToString(i - 1), x.items[i])]]
    [] x.t = "str" ->
         [threw |-> FALSE,
          es |-> [i \in 1..Len(x.s) |-> KV(ToString(i - 1), JStr(SubSeq(x.s, i, i)))]]
    [] OTHER -> [threw |-> FALSE, es |-> <<>>]

\* createHmac('sha256', key).update(message).digest('hex'): the digest as a
\* term of its key and message, so that two digests are equal exactly when
\* key and message are (HMAC taken as collision-free)
createHmac(key, message) == "hmac<" \o key \o ">(" \o message \o ")"

---------------------------------------------------------------------------
(* The serializer.                                                         *)

\* a serializer result: the string, or an exception raised on the way
Returned(s) == [threw |-> FALSE, s |-> s]
Raised == [threw |-> TRUE, s |-> ""]

\* Array.prototype.map followed by join(sep) over results: an exception in
\* the callback leaves the map before anything is joined
JoinResults(rs, sep) ==
  IF \E i \in 1..Len(rs) : rs[i].threw THEN Raised
  ELSE Returned(JoinStrings([i \in 1..Len(rs) |-> rs[i].s], sep))

\* `${prefix}${inner}${suffix}` around a result: an exception passes through
Wrap(prefix, inner, suffix) ==
  IF inner.threw THEN Raised ELSE Returned(prefix \o inner.s \o suffix)

RECURSIVE formatDataForSignature(_), FormatItem(_), FormatEntry(_)
\* the callback of value.map: an element of an array value is wrapped in
\* {...} when typeof item === 'object', which holds of null too; any other
\* element is left as it is and join gives it its text
FormatItem(item) ==
  IF TypeOf(item) = "object"
  THEN Wrap("{", formatDataForSignature(item), "}")
  ELSE Returned(JoinText(item))

\* a serializer that writes a sequence without its brackets
FormatEntryNoBrackets(e) ==
  IF TypeOf(e.v) = "object" /\ e.v.t # "null"
  THEN IF e.v.t = "arr"
       THEN Wrap(e.k \o "=",
                 JoinResults([i \in 1..Len(e.v.items) |-> FormatItem(e.v.items[i])], ", "),
                 "")
       ELSE Wrap(e.k \o "={", formatDataForSignature(e.v), "}")
  ELSE Returned(e.k \o "=" \o ToText(e.v))

\* the callback of Object.entries(data).map: the token of one entry
FormatEntry(e) ==
  IF TypeOf(e.v) = "object" /\ e.v.t # "null"
  THEN IF e.v.t = "arr"
       THEN Wrap(e.k \o "=[",
                 JoinResults([i \in 1..Len(e.v.items) |-> FormatItem(e.v.items[i])], ", "),
                 "]")
       ELSE Wrap(e.k \o "={", formatDataForSignature(e.v), "}")
  ELSE Returned(e.k \o "=" \o ToText(e.v))

\* the tokens of the entries, joined by ", "
FormatEntries(entries) ==
  IF entries.threw THEN Raised
  ELSE JoinResults([i \in 1..Len(entries.es) |-> FormatEntry(entries.es[i])], ", ")

\* formatDataForSignature(data): one key=value token per entry of
\* Object.entries(data), joined by ", "
formatDataForSignature(data) == FormatEntries(ObjectEntries(data))

RECURSIVE Serialize(_)
\* the Canonical Serializer as the specification words it (section 4.1):
\* total on mappings of numbers, strings, booleans, null, mappings and
\* sequences, one token per entry in the mapping's iteration order; a
\* sequence element that is no mapping is given by its plain text
Serialize(data) ==
  LET element(x) ==
        IF x.t = "obj" THEN "{" \o Serialize(x) \o "}" ELSE ToText(x)
      token(e) ==
        CASE e.v.t = "obj" -> e.k \o "={" \o Serialize(e.v) \o "}"
          [] e.v.t = "arr" ->
               e.k \o "=["
                 \o JoinStrings([i \in 1..Len(e.v.items) |-> element(e.v.items[i])], ", ")
                 \o "]"
          [] OTHER -> e.k \o "=" \o ToText(e.v)
  IN JoinStrings([i \in 1..Len(data.entries) |->
                    token(OwnPropertyOrder(data.entries)[i])], ", ")

---------------------------------------------------------------------------
(* JSON text.                                                              *)

\* JSON.stringify gives a text for x: undefined and functions have none
HasJsonText(x) == x.t \notin {"undef", "fn"}

RECURSIVE JsonText(_)
\* the text JSON.stringify gives for a value that has one, on values whose
\* strings need no escaping: the entries of a mapping are written in the
\* order of its own properties, an entry whose value has no text is left
\* out, an element that has none is written null, and so is NaN
JsonText(x) ==
  CASE x.t = "null" -> "null"
    [] x.t = "nan" -> "null"
    [] x.t = "bool" -> IF x.b THEN "true" ELSE "false"
    [] x.t = "num" -> ToString(x.n)
    [] x.t = "str" -> "\"" \o x.s \o "\""
    [] x.t = "arr" ->
         "[" \o JoinStrings([i \in 1..Len(x.items) |->
                               IF HasJsonText(x.items[i]) THEN JsonText(x.items[i])
                               ELSE "null"], ",")
             \o "]"
    [] x.t = "obj" ->
         LET es == SelectSeq(OwnPropertyOrder(x.entries), LAMBDA e : HasJsonText(e.v))
         IN  "{" \o JoinStrings([i \in 1..Len(es) |->
                                   "\"" \o es[i].k \o "\":" \o JsonText(es[i].v)], ",")
                 \o "}"

\* JSON.stringify(value): the string of its text, or undefined when the
\* value has none
Stringify(x) == IF HasJsonText(x) THEN JStr(JsonText(x)) ELSE JUndef

---------------------------------------------------------------------------
(* The inputs of the model: secrets, webhook documents, bodies.            *)

Secrets == {"sk_live", "sk_test"}
Nonces == {"n1", "n2"}
NotifyTypes == {"ORDER_SUCCESS", "ORDER_FAILED"}

\* timestamps a webhook document may carry: at the edge of the window at
\* construction, current, and just beyond the window in the future; one is
\* given as a string of digits
DocTimestamps ==
  {JNum(Now0 - ReplayWindow), JNum(Now0), JNum(Now0 + ReplayWindow + 1),
   JStr(ToString(Now0))}

\* data mappings of webhook documents
DataOrder == JObj(<<KV("orderId", JStr("o1")), KV("amount", JNum(100))>>)
DataOrderText == JObj(<<KV("orderId", JStr("o1")), KV("amount", JStr("100"))>>)
DataItems == JObj(<<KV("items", JArr(<<JObj(<<KV("a", JNum(1))>>), JObj(<<KV("a", JNum(2))>>)>>))>>)
DataNested == JObj(<<KV("tx", JObj(<<KV("amount", JNum(1)), KV("to", JStr("X"))>>)),
                     KV("reason", JNull)>>)
DataNullItem == JObj(<<KV("orderId", JStr("o1")), KV("tags", JArr(<<JNull>>))>>)
DataValues == {DataOrder, DataOrderText, DataNested, DataNullItem}

\* the string the gateway signs for a webhook (protocol of section 4.3, step 7)
WebhookString(timestamp, nonce, notifyType, data) ==
  "data={" \o Serialize(data) \o "}&nonce=" \o ToText(nonce)
    \o "&notifyType=" \o ToText(notifyType)
    \o "&timestamp=" \o ToText(ToNumber(timestamp))

\* a webhook document {sign, timestamp, nonce, notifyType, data}
Document(sign, timestamp, nonce, notifyType, data) ==
  JObj(<<KV("sign", sign), KV("timestamp", timestamp), KV("nonce", nonce),
         KV("notifyType", notifyType), KV("data", data)>>)

\* the document the gateway sends: its sign is the HMAC of its own fields
SignedDocument(secret, timestamp, nonce, notifyType, data) ==
  Document(JStr(createHmac(secret, WebhookString(timestamp, nonce, notifyType, data))),
           timestamp, nonce, notifyType, data)

\* the fields (timestamp, nonce, notifyType, data) of the documents
FieldTuples ==
  {<<ts, JStr(n), JStr(nt), d>> :
     ts \in DocTimestamps, n \in Nonces, nt \in NotifyTypes, d \in DataValues}

\* the fields of the documents the gateway sends: the other nonce and
\* notifyType reach a body only by tampering
SentFields ==
  {f \in FieldTuples : f[2] = JStr("n1") /\ f[3] = JStr("ORDER_SUCCESS")}

\* documents as a gateway holding either secret sends them
SentDocuments ==
  {SignedDocument(s, f[1], f[2], f[3], f[4]) : s \in Secrets, f \in SentFields}

\* documents whose sign is no HMAC at all
UnsignedDocuments ==
  {Document(JStr("invalid-signature"), f[1], f[2], f[3], f[4]) : f \in FieldTuples}

\* a signed document with no data field (the gateway signs the empty mapping)
NoDataDocument(secret) ==
  JObj(<<KV("sign", JStr(createHmac(secret,
                           WebhookString(JNum(Now0), JStr("n1"), JStr("ORDER_SUCCESS"),
                                         JObj(<<>>))))),
         KV("timestamp", JNum(Now0)), KV("nonce", JStr("n1")),
         KV("notifyType", JStr("ORDER_SUCCESS"))>>)

\* a document whose timestamp is no number, signed as the gateway's protocol
\* signs it
TextTimestampDocument(secret) ==
  SignedDocument(secret, JStr("soon"), JStr("n1"), JStr("ORDER_SUCCESS"), DataOrder)

\* JSON texts that are no webhook document: null, a number, an object with
\* none of the five fields, a document without data, a document whose
\* timestamp is no number
OtherDocuments ==
  {JNull, JNum(5), JObj(<<KV("event", JStr("test"))>>)}
    \cup {NoDataDocument(s) : s \in Secrets}
    \cup {TextTimestampDocument(s) : s \in Secrets}

\* g differs from f in exactly one field
OneFieldChanged(f, g) == Cardinality({i \in 1..4 : f[i] # g[i]}) = 1

\* a sent document after one of its fields was replaced, its sign kept
TamperedDocuments ==
  UNION {{Document(GetProp(SignedDocument(s, f[1], f[2], f[3], f[4]), "sign").v,
                   g[1], g[2], g[3], g[4]) :
            g \in {h \in FieldTuples : OneFieldChanged(f, h)}} :
          s \in Secrets, f \in SentFields}

\* the request string with timestamp and nonce in the other order
RequestSignatureStringTimestampFirst(dataString, nonce, timestamp) ==
  "data={" \o dataString \o "}&timestamp=" \o ToString(timestamp) \o "&nonce=" \o nonce

\* the string generateSignature signs
RequestSignatureString(dataString, nonce, timestamp) ==
  "data={" \o dataString \o "}&nonce=" \o nonce \o "&timestamp=" \o ToString(timestamp)

\* an envelope that also carries a notifyType
EnvelopeWithNotifyType(sign, timestamp, nonce, data) ==
  [t |-> "envelope", sign |-> sign, timestamp |-> timestamp, nonce |-> nonce,
   data |-> data, notifyType |-> JUndef]

\* the envelope generateSignature returns
Envelope(sign, timestamp, nonce, data) ==
  [t |-> "envelope", sign |-> sign, timestamp |-> timestamp, nonce |-> nonce,
   data |-> data]

\* generateSignature once the data string is computed: the envelope, or the
\* exception the serializer raised, which nothing catches
SignSerialized(secret, timestamp, nonce, params, dataString) ==
  IF dataString.threw
  THEN [ret |-> JUndef, raised |-> TRUE, hmacs |-> <<>>]
  ELSE [ret |-> Envelope(JStr(createHmac(secret,
                                RequestSignatureString(dataString.s, nonce, timestamp))),
                         JNum(timestamp), JStr(nonce), params),
        raised |-> FALSE,
        hmacs |-> <<RequestSignatureString(dataString.s, nonce, timestamp)>>]

\* generateSignature(params) with Math.floor(Date.now() / 1000) = clock and
\* generateNonce() = nonce
generateSignature(secret, clock, nonce, params) ==
  SignSerialized(secret, clock, nonce, params, formatDataForSignature(params))

\* the values generateNonce returns
RequestNonces == {"k3f9a", "z81bq"}

\* a payout request paid to address
AddressRequest(address) ==
  JObj(<<KV("amount", JNum(100)), KV("symbol", JStr("USDT")),
         KV("chain", JStr("TRON")), KV("orderId", JStr("o1")),
         KV("receiveAddress", JStr(address))>>)

\* a payout request whose address, a string the caller takes from its user,
\* holds the separators of the signed string
SeparatorRequest == AddressRequest("T1}&nonce=n1&notifyType=ORDER_SUCCESS")

\* the requests whose envelopes an observer of the transport captures
OutboundRequests == {AddressRequest("T1"), SeparatorRequest, DataOrder}

\* the webhook documents an observer makes of a captured envelope: its sign
\* and timestamp kept, the nonce n1, as notifyType ORDER_SUCCESS alone or
\* followed by the text that ends the envelope's signed string before its
\* timestamp, as data the envelope's data or the request paid to T1
CapturedDocuments(envelope) ==
  {Document(envelope.sign, envelope.timestamp, JStr("n1"), JStr(nt), d) :
     nt \in {"ORDER_SUCCESS", "ORDER_SUCCESS}&nonce=" \o ToText(envelope.nonce)},
     d \in {envelope.data, AddressRequest("T1")}}

\* the captured documents of every envelope of the model
CapturedValues ==
  UNION {CapturedDocuments(generateSignature(s, t, n, r).ret) :
           s \in Secrets, t \in Now0..(Now0 + MaxTicks), n \in RequestNonces,
           r \in OutboundRequests}

\* every JSON value a body of the model may hold
JsonValues ==
  SentDocuments \cup UnsignedDocuments \cup OtherDocuments \cup TamperedDocuments
    \cup CapturedValues

\* bodies that are not JSON texts
RawBodies == {"not-valid-json", ""}

\* the bodies a caller hands to verifyWebhook and parseWebhook
Bodies ==
  {Stringify(d).s : d \in SentDocuments \cup OtherDocuments} \cup RawBodies
    \cup {Stringify(Document(JStr("invalid-signature"), f[1], f[2], f[3], f[4])).s :
            f \in SentFields}

\* the JSON texts of the model, each with the value it denotes
JsonTexts == {<<Stringify(d).s, d>> : d \in JsonValues}

\* the value a text denotes among the texts of a table, or a SyntaxError
ParseIn(table, text) ==
  IF \E p \in table : p[1] = text
  THEN [threw |-> FALSE, v |-> (CHOOSE p \in table : p[1] = text)[2]]
  ELSE [threw |-> TRUE, v |-> JUndef]

\* JSON.parse(text): a result [threw, v]; a text that is no JSON text raises
\* a SyntaxError
JSONParse(text) == ParseIn(JsonTexts, text)

---------------------------------------------------------------------------
(* The operations of class XPay.                                           *)

\* the replay check: Math.abs(currentTimestamp - providedTimestamp) > 30
TimestampTooOld(currentTimestamp, providedTimestamp) ==
  AbsDiffExceeds(JNum(currentTimestamp), providedTimestamp, ReplayWindow)

\* the string verifyWebhook signs in its try block
WebhookSignatureString(dataString, providedNonce, notifyType, providedTimestamp) ==
  "data={" \o dataString \o "}&nonce=" \o ToText(providedNonce)
    \o "&notifyType=" \o ToText(notifyType)
    \o "&timestamp=" \o ToText(providedTimestamp)

\* the catch block's message with its two parts in the other order
FallbackMessageBodyFirst(timestamp, body) == body \o ToText(timestamp)

\* the message verifyWebhook signs in its catch block
FallbackMessage(timestamp, body) == ToText(timestamp) \o body

\* what a call of verifyWebhook did: the value returned, whether an exception
\* left it, whether JSON.parse succeeded, the branch that produced the result
\* ("replay": the early return of the replay check, "primary": the comparison
\* of the try block, "fallback": the catch block), the messages an HMAC was
\* computed over, and the values the try block resolved
VerifyOutcome(ret, parsed, path, hmacs, sig, ts) ==
  [ret |-> ret, raised |-> FALSE, parsed |-> parsed, path |-> path,
   hmacs |-> hmacs, providedSignature |-> sig, providedTimestamp |-> ts]

\* a catch block that rethrows what it caught
verifyWebhookCatchRethrows(secret, body, signature, timestamp, parsed) ==
  [VerifyOutcome(FALSE, parsed, "fallback", <<>>, signature, timestamp)
     EXCEPT !.raised = TRUE]

\* the catch block of verifyWebhook
verifyWebhookCatch(secret, body, signature, timestamp, parsed) ==
  VerifyOutcome(JStr(createHmac(secret, FallbackMessage(timestamp, body))) = signature,
                parsed, "fallback", <<FallbackMessage(timestamp, body)>>,
                signature, timestamp)

\* a || b.key: b.key is read only when a is falsy
OrElseProp(a, b, key) ==
  IF Truthy(a) THEN [threw |-> FALSE, v |-> a] ELSE GetProp(b, key)

\* the end of the try block: the HMAC of the signature string is compared
\* with the provided signature
VerifyCompare(secret, providedSignature, providedTimestamp, signatureString) ==
  VerifyOutcome(JStr(createHmac(secret, signatureString)) = providedSignature,
                TRUE, "primary", <<signatureString>>,
                providedSignature, providedTimestamp)

\* the try block once the data string is computed, or the exception of
\* formatDataForSignature caught
VerifySerialized(secret, body, signature, timestamp, providedSignature, providedTimestamp, providedNonce, notifyType, dataString) ==
  IF dataString.threw
  THEN verifyWebhookCatch(secret, body, signature, timestamp, TRUE)
  ELSE VerifyCompare(secret, providedSignature, providedTimestamp,
                     WebhookSignatureString(dataString.s, providedNonce, notifyType,
                                            providedTimestamp))

\* the try block once signature, timestamp, nonce and notifyType are resolved:
\* the replay check, then the serialization of webhookData.data || {}
VerifyResolved(secret, clock, body, signature, timestamp, webhookData, providedSignature, providedTimestamp, providedNonce, notifyType) ==
  IF TimestampTooOld(clock, providedTimestamp)
  THEN VerifyOutcome(FALSE, TRUE, "replay", <<>>, providedSignature, providedTimestamp)
  ELSE VerifySerialized(secret, body, signature, timestamp, providedSignature,
                        providedTimestamp, providedNonce, notifyType,
                        formatDataForSignature(
                          OrElse(GetProp(webhookData, "data").v, JObj(<<>>))))

\* the try block after JSON.parse: the reads of webhookData.sign, .timestamp,
\* .nonce and .notifyType, each of which raises a TypeError on null
VerifyParsed(secret, clock, body, signature, timestamp, webhookData, signProp, timeProp, nonceProp, typeProp) ==
  IF signProp.threw \/ timeProp.threw \/ nonceProp.threw \/ typeProp.threw
  THEN verifyWebhookCatch(secret, body, signature, timestamp, TRUE)
  ELSE VerifyResolved(secret, clock, body, signature, timestamp, webhookData,
                      signProp.v, ToNumber(timeProp.v), nonceProp.v, typeProp.v)

\* the try block from JSON.parse on, or its SyntaxError caught
VerifyBody(secret, clock, body, signature, timestamp, parse) ==
  IF parse.threw
  THEN verifyWebhookCatch(secret, body, signature, timestamp, FALSE)
  ELSE VerifyParsed(secret, clock, body, signature, timestamp, parse.v,
                    OrElseProp(signature, parse.v, "sign"),
                    OrElseProp(timestamp, parse.v, "timestamp"),
                    GetProp(parse.v, "nonce"),
                    GetProp(parse.v, "notifyType"))

\* the outcome v of a call of verifyWebhook together with the signature and
\* timestamp arguments the call received
WithArguments(v, signature, timestamp) ==
  [ret |-> v.ret, raised |-> v.raised, parsed |-> v.parsed, path |-> v.path,
   hmacs |-> v.hmacs, providedSignature |-> v.providedSignature,
   providedTimestamp |-> v.providedTimestamp,
   signatureArg |-> signature, timestampArg |-> timestamp]

\* verifyWebhook(body, signature, timestamp) with this.apiSecret = secret and
\* Math.floor(Date.now() / 1000) = clock
verifyWebhook(secret, clock, body, signature, timestamp) ==
  WithArguments(VerifyBody(secret, clock, body, signature, timestamp, JSONParse(body)),
                signature, timestamp)

\* the result of a call that made no call of verifyWebhook
NotVerified ==
  [ret |-> FALSE, raised |-> FALSE, parsed |-> FALSE, path |-> "none",
   hmacs |-> <<>>, providedSignature |-> JUndef, providedTimestamp |-> JUndef,
   signatureArg |-> JUndef, timestampArg |-> JUndef]

\* the event parseWebhook returns
WebhookEvent(sign, timestamp, nonce, notifyType, data) ==
  [t |-> "event", sign |-> sign, timestamp |-> timestamp, nonce |-> nonce,
   notifyType |-> notifyType, data |-> data]

\* what a call of parseWebhook did: the value returned (an event or null),
\* whether an exception left it, and the call of verifyWebhook it made
ParseOutcome(ret, verified) == [ret |-> ret, raised |-> FALSE, verify |-> verified]

\* parseWebhook without its check of verifyWebhook's result
ParseVerifiedUnchecked(webhookData, verified) ==
  ParseOutcome(WebhookEvent(GetProp(webhookData, "sign").v,
                            GetProp(webhookData, "timestamp").v,
                            GetProp(webhookData, "nonce").v,
                            GetProp(webhookData, "notifyType").v,
                            GetProp(webhookData, "data").v),
               verified)

\* parseWebhook returning the signature and timestamp that were checked in
\* place of the document's own
ParseVerifiedRecomputed(webhookData, verified) ==
  IF verified.raised \/ ~verified.ret THEN ParseOutcome(JNull, verified)
  ELSE IF GetProp(webhookData, "sign").threw THEN ParseOutcome(JNull, verified)
  ELSE ParseOutcome(WebhookEvent(verified.providedSignature,
                                 verified.providedTimestamp,
                                 GetProp(webhookData, "nonce").v,
                                 GetProp(webhookData, "notifyType").v,
                                 GetProp(webhookData, "data").v),
                    verified)

\* the try block of parseWebhook after its call of verifyWebhook: null when
\* verification failed, else the event of the document's own fields; the
\* reads raise a TypeError on null, which the catch block turns into null
ParseVerified(webhookData, verified) ==
  IF verified.raised \/ ~verified.ret THEN ParseOutcome(JNull, verified)
  ELSE IF GetProp(webhookData, "sign").threw THEN ParseOutcome(JNull, verified)
  ELSE ParseOutcome(WebhookEvent(GetProp(webhookData, "sign").v,
                                 GetProp(webhookData, "timestamp").v,
                                 GetProp(webhookData, "nonce").v,
                                 GetProp(webhookData, "notifyType").v,
                                 GetProp(webhookData, "data").v),
                    verified)

\* the try block of parseWebhook after JSON.parse: signature || sign and
\* timestamp || timestamp are resolved and handed to verifyWebhook
ParseParsed(secret, clock, body, webhookData, signProp, timeProp) ==
  IF signProp.threw \/ timeProp.threw THEN ParseOutcome(JNull, NotVerified)
  ELSE ParseVerified(webhookData,
                     verifyWebhook(secret, clock, body, signProp.v, timeProp.v))

\* the try block of parseWebhook, or its SyntaxError caught
ParseBody(secret, clock, body, signature, timestamp, parse) ==
  IF parse.threw THEN ParseOutcome(JNull, NotVerified)
  ELSE ParseParsed(secret, clock, body, parse.v,
                   OrElseProp(signature, parse.v, "sign"),
                   OrElseProp(timestamp, parse.v, "timestamp"))

\* parseWebhook(body, signature, timestamp)
parseWebhook(secret, clock, body, signature, timestamp) ==
  ParseBody(secret, clock, body, signature, timestamp, JSONParse(body))

---------------------------------------------------------------------------
(* The payloads the serializer is applied to.                              *)

\* scalars of a SignablePayload; an amount given as a decimal string
Scalars ==
  {JNum(1), JNum(2), JStr("X"), JStr("100.00000000"), JBool(TRUE), JBool(FALSE), JNull}

\* values that are no SignablePayload values
Unserializable == {JUndef, JFn("() => 1")}

\* mappings nested in a payload
InnerMappings ==
  {JObj(<<>>), JObj(<<KV("a", JNum(1))>>), JObj(<<KV("a", JNum(2))>>),
   JObj(<<KV("amount", JNum(1)), KV("to", JStr("X"))>>),
   JObj(<<KV("n", JNull), KV("ok", JBool(TRUE))>>),
   JObj(<<KV("a", JNum(1)), KV("b", JNum(2))>>)}

\* elements of a sequence
Items ==
  {JNum(1), JStr("X"), JNull, JUndef, JObj(<<KV("a", JNum(1))>>), JObj(<<KV("a", JNum(2))>>),
   JObj(<<KV("0", JNum(1))>>)}

\* sequences of at most MaxItems elements
PayloadSequences == {JArr(s) : s \in UNION {[1..n -> Items] : n \in 0..MaxItems}}

\* the values of an entry
PayloadValues == Scalars \cup Unserializable \cup InnerMappings \cup PayloadSequences

\* the values of the second entry of a mapping of two entries
SecondValues == {JNum(1), JStr("X"), JNull, JObj(<<KV("a", JNum(1))>>)}

\* the keys of a mapping of two entries; one key holds the separators the
\* serializer writes, and one pair is of keys that are array indices
KeyPairs == {<<"a", "b">>, <<"tx", "items">>, <<"a", "a=1, a">>, <<"1", "2">>}

\* the payloads: mappings of no, one and two entries, the two entries in
\* either order
Payloads ==
  {JObj(<<>>)}
    \cup {JObj(<<KV(k, v)>>) : k \in {"amount", "tx", "items"}, v \in PayloadValues}
    \cup {JObj(<<KV(ks[1], v), KV(ks[2], w)>>) :
            ks \in KeyPairs, v \in PayloadValues, w \in SecondValues}
    \cup {JObj(<<KV(ks[2], w), KV(ks[1], v)>>) :
            ks \in KeyPairs, v \in PayloadValues, w \in SecondValues}

---------------------------------------------------------------------------
(* The transport: class ApiClient.                                         *)

\* an Error object: its message and the status handleError attaches to it
\* (0: none)
JError(message, status) == [t |-> "error", message |-> message, status |-> status]

\* no error
NoError == JError("", 0)

\* the TypeError Object.entries raises on null or undefined
EntriesTypeError == JError("Cannot convert undefined or null to object", 0)

\* what axios does with a POST: "resolved" with a response holding data;
\* rejected with an error holding the "response" of a failed request (its
\* status and the message of its body); rejected with an error holding only
\* the "request" (nothing came back); rejected with an error raised in the
\* "setup" of the request
AxiosOutcome(kind, status, message, data) ==
  [kind |-> kind, status |-> status, message |-> message, data |-> data]

\* response bodies of the API
PayoutResponse ==
  JObj(<<KV("code", JNum(200)), KV("msg", JStr("Success")),
         KV("data", JObj(<<KV("orderId", JStr("o1")), KV("status", JStr("PENDING"))>>))>>)
Responses == {PayoutResponse, JObj(<<KV("code", JNum(500)), KV("msg", JStr("busy"))>>)}

AxiosOutcomes ==
  {AxiosOutcome("resolved", 200, "", r) : r \in Responses}
    \cup {AxiosOutcome("response", 400, "Invalid symbol", JUndef),
          AxiosOutcome("response", 500, "", JUndef),
          AxiosOutcome("request", 0, "timeout of 30000ms exceeded", JUndef),
          AxiosOutcome("setup", 0, "Invalid URL", JUndef)}

\* handleError(error): the error the response interceptor throws
handleError(error) ==
  IF error.kind = "response"
  THEN JError("API Error " \o ToString(error.status) \o ": "
                \o (IF error.message # "" THEN error.message ELSE "Unknown error"),
              error.status)
  ELSE IF error.kind = "request"
  THEN JError("Network Error: No response received from API", 0)
  ELSE JError(error.message, 0)

\* how a promise settles: resolved with a value or rejected with an error
Resolved(value) == [rejected |-> FALSE, value |-> value, error |-> NoError]
Rejected(error) == [rejected |-> TRUE, value |-> JUndef, error |-> error]

\* post(endpoint, data) when axios ends as outcome: response.data, or the
\* error of the interceptor
post(endpoint, data, outcome) ==
  IF outcome.kind = "resolved" THEN Resolved(outcome.data)
  ELSE Rejected(handleError(outcome))

---------------------------------------------------------------------------
(* The state machine: one XPay instance, the clock, the last call, and the *)
(* posts that await their response.                                        *)

\* timestamps a caller passes: none, the three numbers, a string of digits,
\* and the number 0
TimestampArgs ==
  {JUndef, JNum(Now0 - ReplayWindow), JNum(Now0), JNum(Now0 + ReplayWindow + 1),
   JStr(ToString(Now0)), JNum(0)}

\* the X-Signature header a gateway holding the secret computes for a
\* document it sends with the X-Timestamp header timestamp (the document's
\* own timestamp when there is no such header)
HeaderSignature(secret, doc, timestamp) ==
  JStr(createHmac(secret,
         WebhookString(OrElse(timestamp, GetProp(doc, "timestamp").v),
                       GetProp(doc, "nonce").v, GetProp(doc, "notifyType").v,
                       OrElse(GetProp(doc, "data").v, JObj(<<>>)))))

\* signatures a caller passes with a body and a timestamp: none, junk, the
\* body's own sign, the header signature of the body's document, the digest
\* of the raw message timestamp + body, and that digest with the document's
\* timestamp when the caller passes none, and the empty string
SignatureArgs(secret, body, timestamp) ==
  {JUndef, JStr("invalid-signature"), JStr(""),
   JStr(createHmac(secret, FallbackMessage(timestamp, body))),
   JStr(createHmac(secret,
          FallbackMessage(OrElse(timestamp, GetProp(JSONParse(body).v, "timestamp").v),
                          body))),
   GetProp(JSONParse(body).v, "sign").v,
   HeaderSignature(secret, JSONParse(body).v, timestamp)}

\* request payloads of createPayout and createCollection
PayoutRequest ==
  JObj(<<KV("amount", JNum(100)), KV("symbol", JStr("USDT")),
         KV("chain", JStr("TRON")), KV("orderId", JStr("o1")),
         KV("uid", JStr("u1")), KV("receiveAddress", JStr("T1"))>>)
\* a payout request without its optional fields
PayoutRequestNoUid ==
  JObj(<<KV("amount", JNum(100)), KV("symbol", JStr("USDT")),
         KV("chain", JStr("TRON")), KV("orderId", JStr("o2"))>>)
PayoutRequests == {PayoutRequest, PayoutRequestNoUid}
Requests ==
  {PayoutRequest, PayoutRequestNoUid, DataItems, DataNested, DataNullItem,
   JObj(<<KV("a", JNum(1)), KV("b", JNum(2))>>),
   JObj(<<KV("b", JNum(2)), KV("a", JNum(1))>>)}

\* the record of a call: the operation, its arguments, the value it returned
\* (for an async method: the value its promise resolved to), whether an
\* exception left it (the promise rejected) and with which error, what
\* verifyWebhook did in it, for a signing call the nonce drawn, the endpoint
\* posted to and the calls of the transport's post it made, for a call on
\* a tampered body the field that was changed and the body before the change,
\* and the clock when the call began
Call(op, body, signature, timestamp, ret, raised, verify) ==
  [op |-> op, body |-> body, signature |-> signature, timestamp |-> timestamp,
   ret |-> ret, raised |-> raised, verify |-> verify,
   request |-> JUndef, nonce |-> "", endpoint |-> "", hmacs |-> verify.hmacs,
   changed |-> "none", original |-> "", posts |-> <<>>, error |-> NoError,
   at |-> now]

\* the record of a call of verifyWebhook with outcome v
VerifyCall(body, signature, timestamp, v) ==
  Call("verifyWebhook", body, signature, timestamp, JBool(v.ret), v.raised, v)

\* the record of a call of parseWebhook with outcome p
ParseCall(body, signature, timestamp, p) ==
  Call("parseWebhook", body, signature, timestamp, p.ret, p.raised, p.verify)

\* the record of a call of createPayout or createCollection that drew nonce,
\* computed the HMACs hmacs, made the calls posts of the transport's post and
\* whose promise settled as settled
OrderCall(op, endpoint, request, nonce, hmacs, posts, settled) ==
  [Call(op, "", JUndef, JUndef, settled.value, settled.rejected, NotVerified)
     EXCEPT !.request = request, !.nonce = nonce, !.endpoint = endpoint,
            !.hmacs = hmacs, !.posts = posts, !.error = settled.error]

\* a post awaiting its response: the call that made it and its arguments
Posted(op, endpoint, request, nonce, g) ==
  [op |-> op, endpoint |-> endpoint, request |-> request, nonce |-> nonce,
   data |-> g.ret, hmacs |-> g.hmacs, at |-> now]

\* sequence s without its i-th element
RemoveAt(s, i) == SubSeq(s, 1, i - 1) \o SubSeq(s, i + 1, Len(s))

NoCall == Call("none", "", JUndef, JUndef, JUndef, FALSE, NotVerified)

\* no call is running and no post awaits its response
Idle == call.op = "none" /\ pending = <<>>

Init ==
  /\ apiSecret \in Secrets
  /\ now = Now0
  /\ call = NoCall
  /\ pending = <<>>

\* a second passes
Tick ==
  /\ call.op = "none"
  /\ now < Now0 + MaxTicks
  /\ now' = now + 1
  /\ UNCHANGED <<apiSecret, call, pending>>

\* a call of verifyWebhook
VerifyWebhook ==
  /\ Idle
  /\ \E body \in Bodies, timestamp \in TimestampArgs :
       \E signature \in SignatureArgs(apiSecret, body, timestamp) :
         call' = VerifyCall(body, signature, timestamp,
                            verifyWebhook(apiSecret, now, body, signature, timestamp))
  /\ UNCHANGED <<apiSecret, now, pending>>

\* a call of parseWebhook
ParseWebhook ==
  /\ Idle
  /\ \E body \in Bodies, timestamp \in TimestampArgs :
       \E signature \in SignatureArgs(apiSecret, body, timestamp) :
         call' = ParseCall(body, signature, timestamp,
                           parseWebhook(apiSecret, now, body, signature, timestamp))
  /\ UNCHANGED <<apiSecret, now, pending>>

\* the names of the fields of FieldTuples
FieldNames == <<"timestamp", "nonce", "notifyType", "data">>

\* the reads of the fields (timestamp, nonce, notifyType, data) of a
\* document: a result [threw, v]; on null or undefined each read raises a
\* TypeError
FieldsOf(doc) ==
  IF GetProp(doc, "timestamp").threw \/ GetProp(doc, "nonce").threw
       \/ GetProp(doc, "notifyType").threw \/ GetProp(doc, "data").threw
  THEN [threw |-> TRUE, v |-> <<>>]
  ELSE [threw |-> FALSE,
        v |-> <<GetProp(doc, "timestamp").v, GetProp(doc, "nonce").v,
                GetProp(doc, "notifyType").v, GetProp(doc, "data").v>>]

\* the tampered body: document doc with fields g in place of its own
TamperedBody(doc, g) ==
  Stringify(Document(GetProp(doc, "sign").v, g[1], g[2], g[3], g[4])).s

\* the record of the call on the tampered body
TamperedCall(f, g, original, v) ==
  [v EXCEPT !.changed = FieldNames[CHOOSE i \in 1..4 : f[i] # g[i]],
            !.original = original]

\* the tampering of the accepted document doc
TamperDocument(doc) ==
  /\ ~FieldsOf(doc).threw
  /\ FieldsOf(doc).v \in FieldTuples
  /\ \E g \in FieldTuples :
       /\ OneFieldChanged(FieldsOf(doc).v, g)
       /\ call' = TamperedCall(FieldsOf(doc).v, g, call.body,
                    VerifyCall(TamperedBody(doc, g), call.signature, call.timestamp,
                               verifyWebhook(apiSecret, now, TamperedBody(doc, g),
                                             call.signature, call.timestamp)))

\* a man in the middle: the body verifyWebhook has just accepted is presented
\* again with exactly one of timestamp, nonce, notifyType, data replaced, the
\* sign field and the arguments of the call unchanged
VerifyTampered ==
  /\ call.op = "verifyWebhook"
  /\ call.changed = "none"
  /\ call.ret = JBool(TRUE)
  /\ ~JSONParse(call.body).threw
  /\ TamperDocument(JSONParse(call.body).v)
  /\ UNCHANGED <<apiSecret, now, pending>>

\* the end of the synchronous part of createPayout / createCollection: when
\* generateSignature raised, the promise is rejected with nothing posted;
\* else the envelope is handed to the transport's post and the call awaits
OrderSigned(op, endpoint, request, nonce, g) ==
  IF g.raised
  THEN /\ call' = OrderCall(op, "", request, nonce, g.hmacs, <<>>,
                            Rejected(EntriesTypeError))
       /\ pending' = pending
  ELSE /\ pending' = Append(pending, Posted(op, endpoint, request, nonce, g))
       /\ call' = call

\* createPayout(request) or createCollection(request) up to its await: the
\* request is signed and the envelope handed to the transport's post
CreateOrder(op, endpoint) ==
  /\ Idle
  /\ \E request \in Requests, nonce \in RequestNonces :
       OrderSigned(op, endpoint, request, nonce,
                   generateSignature(apiSecret, now, nonce, request))
  /\ UNCHANGED <<apiSecret, now>>

\* a call that catches the rejection of its post and resolves to null
SettledCallSwallowed(p, settled) ==
  [OrderCall(p.op, p.endpoint, p.request, p.nonce, p.hmacs,
             <<[endpoint |-> p.endpoint, data |-> p.data, result |-> settled]>>,
             IF settled.rejected THEN Resolved(JNull) ELSE settled)
     EXCEPT !.at = p.at]

\* the call that made the post p, its promise settled as settled
SettledCall(p, settled) ==
  [OrderCall(p.op, p.endpoint, p.request, p.nonce, p.hmacs,
             <<[endpoint |-> p.endpoint, data |-> p.data, result |-> settled]>>,
             settled)
     EXCEPT !.at = p.at]

\* a post settles: createPayout / createCollection returns what the
\* transport's post resolved to, or rejects with what it rejected with
PostSettles ==
  /\ call.op = "none"
  /\ \E i \in 1..Len(pending), outcome \in AxiosOutcomes :
       /\ call' = SettledCall(pending[i],
                              post(pending[i].endpoint, pending[i].data, outcome))
       /\ pending' = RemoveAt(pending, i)
  /\ UNCHANGED <<apiSecret, now>>

createPayout == CreateOrder("createPayout", "/v1/order/createPayout")

createCollection == CreateOrder("createCollection", "/v1/order/createCollection")

\* the caller takes the result; the instance is ready for the next call
Return ==
  /\ call.op # "none"
  /\ call' = NoCall
  /\ UNCHANGED <<apiSecret, now, pending>>

\* the record of a call of formatDataForSignature that ended as r
FormatCall(data, r) ==
  [Call("formatDataForSignature", "", JUndef, JUndef,
        IF r.threw THEN JUndef ELSE JStr(r.s), r.threw, NotVerified)
     EXCEPT !.request = data,
            !.error = IF r.threw THEN EntriesTypeError ELSE NoError]

\* the record of a call of generateSignature that drew nonce and ended as g
SignCall(params, nonce, g) ==
  [Call("generateSignature", "", JUndef, JUndef, g.ret, g.raised, NotVerified)
     EXCEPT !.request = params, !.nonce = nonce, !.hmacs = g.hmacs,
            !.error = IF g.raised THEN EntriesTypeError ELSE NoError]

\* a call of formatDataForSignature on a payload
FormatPayload ==
  /\ Idle
  /\ \E data \in Payloads : call' = FormatCall(data, formatDataForSignature(data))
  /\ UNCHANGED <<apiSecret, now, pending>>

\* a call of generateSignature on a payload
SignPayload ==
  /\ Idle
  /\ \E params \in Payloads :
       call' = SignCall(params, "k3f9a",
                        generateSignature(apiSecret, now, "k3f9a", params))
  /\ UNCHANGED <<apiSecret, now, pending>>

\* the serializer and the signer applied to the payloads
NextSerializer ==
  \/ FormatPayload
  \/ SignPayload
  \/ Return

SpecSerializer == Init /\ [][NextSerializer]_vars

\* requests signed while other posts await their response
ConcurrentRequests == {PayoutRequest, DataNullItem}

\* bodies verified while posts await their response: a signed document for
\* either secret, fresh or at the edge of the window at construction, the
\* JSON text null, and a text that is no JSON
ConcurrentBodies ==
  {Stringify(SignedDocument(s, ts, JStr("n1"), JStr("ORDER_SUCCESS"), DataOrder)).s :
     s \in Secrets, ts \in {JNum(Now0), JNum(Now0 - ReplayWindow)}}
    \cup {"null", "not-valid-json"}

\* an instance that keeps the timestamp and nonce of its oldest unanswered
\* post and signs the next request with them
OrderAmongPostsSharedSignature(op, endpoint) ==
  /\ call.op = "none"
  /\ Len(pending) < MaxInFlight
  /\ \E request \in ConcurrentRequests, nonce \in RequestNonces :
       OrderSigned(op, endpoint, request, nonce,
                   IF pending = <<>>
                   THEN generateSignature(apiSecret, now, nonce, request)
                   ELSE generateSignature(apiSecret, pending[1].at, pending[1].nonce,
                                          request))
  /\ UNCHANGED <<apiSecret, now>>

\* createPayout / createCollection up to its await, called while at most
\* MaxInFlight - 1 posts await their response
OrderAmongPosts(op, endpoint) ==
  /\ call.op = "none"
  /\ Len(pending) < MaxInFlight
  /\ \E request \in ConcurrentRequests, nonce \in RequestNonces :
       OrderSigned(op, endpoint, request, nonce,
                   generateSignature(apiSecret, now, nonce, request))
  /\ UNCHANGED <<apiSecret, now>>

createPayoutAmongPosts == OrderAmongPosts("createPayout", "/v1/order/createPayout")

createCollectionAmongPosts ==
  OrderAmongPosts("createCollection", "/v1/order/createCollection")

\* a call of verifyWebhook while posts may await their response
VerifyAmongPosts ==
  /\ call.op = "none"
  /\ \E body \in ConcurrentBodies :
       \E signature \in SignatureArgs(apiSecret, body, JUndef) :
         call' = VerifyCall(body, signature, JUndef,
                            verifyWebhook(apiSecret, now, body, signature, JUndef))
  /\ UNCHANGED <<apiSecret, now, pending>>

\* a call of parseWebhook while posts may await their response
ParseAmongPosts ==
  /\ call.op = "none"
  /\ \E body \in ConcurrentBodies :
       \E signature \in SignatureArgs(apiSecret, body, JUndef) :
         call' = ParseCall(body, signature, JUndef,
                           parseWebhook(apiSecret, now, body, signature, JUndef))
  /\ UNCHANGED <<apiSecret, now, pending>>

\* a caller that does not await: calls begin while posts await their response
\* and the posts settle in any order
NextConcurrent ==
  \/ Tick
  \/ Return
  \/ createPayoutAmongPosts
  \/ createCollectionAmongPosts
  \/ VerifyAmongPosts
  \/ ParseAmongPosts
  \/ PostSettles

SpecConcurrent == Init /\ [][NextConcurrent]_vars

\* createPayout up to its await, on a request whose envelope is captured
createPayoutObserved ==
  /\ Idle
  /\ \E request \in OutboundRequests, nonce \in RequestNonces :
       OrderSigned("createPayout", "/v1/order/createPayout", request, nonce,
                   generateSignature(apiSecret, now, nonce, request))
  /\ UNCHANGED <<apiSecret, now>>

\* the record of a call of verifyWebhook whose body was made of the envelope
\* of the post p
CapturedCall(p, v) == [v EXCEPT !.changed = "outbound", !.original = p.hmacs[1]]

\* an observer of the transport presents a webhook body made of the envelope
\* of a post that awaits its response; the caller passes the body alone
VerifyCaptured ==
  /\ call.op = "none"
  /\ pending # <<>>
  /\ \E doc \in CapturedDocuments(pending[1].data) :
       call' = CapturedCall(pending[1],
                 VerifyCall(Stringify(doc).s, JUndef, JUndef,
                            verifyWebhook(apiSecret, now, Stringify(doc).s, JUndef,
                                          JUndef)))
  /\ UNCHANGED <<apiSecret, now, pending>>

\* outbound envelopes presented back as webhooks
NextSeparation ==
  \/ Tick
  \/ Return
  \/ createPayoutObserved
  \/ VerifyCaptured
  \/ PostSettles

SpecSeparation == Init /\ [][NextSeparation]_vars

\* the record of a call of verifyWebhook that presents again, at clock value
\* clock, the webhook of the record first
ReplayedCall(first, clock, v) ==
  [VerifyCall(first.body, first.signature, first.timestamp, v)
     EXCEPT !.changed = "replayed", !.original = first.body, !.at = clock]

\* the webhook (body, signature, timestamp) that verifyWebhook accepted is
\* presented to it again, at once or seconds later, and again after that
VerifyReplayed ==
  /\ call.op = "verifyWebhook"
  /\ \/ call.changed = "none" /\ call.ret = JBool(TRUE)
     \/ call.changed = "replayed"
  /\ \E later \in now..(Now0 + MaxTicks) :
       /\ now' = later
       /\ call' = ReplayedCall(call, later,
                               verifyWebhook(apiSecret, later, call.body, call.signature,
                                             call.timestamp))
  /\ UNCHANGED <<apiSecret, pending>>

\* webhooks presented to verifyWebhook again and again
NextReplay ==
  \/ Tick
  \/ Return
  \/ VerifyWebhook
  \/ VerifyReplayed

SpecReplay == Init /\ [][NextReplay]_vars

Next ==
  \/ Tick
  \/ Return
  \/ VerifyWebhook
  \/ ParseWebhook
  \/ VerifyTampered
  \/ createPayout
  \/ createCollection
  \/ PostSettles

Spec == Init /\ [][Next]_vars

---------------------------------------------------------------------------
(* Properties.                                                             *)

\* the document of the last call's body (undefined when it is no JSON text)
CallDocument == JSONParse(call.body).v

\* the last call's body is a JSON text
CallBodyParses == ~JSONParse(call.body).threw

\* the effective signature of the last call: the one passed, else the
\* document's sign
EffectiveSignature ==
  IF call.signature # JUndef THEN call.signature ELSE GetProp(CallDocument, "sign").v

\* the effective timestamp of the last call: the one passed, else the
\* document's timestamp, as a number
EffectiveTimestamp ==
  ToNumber(IF call.timestamp # JUndef THEN call.timestamp
           ELSE GetProp(CallDocument, "timestamp").v)

\* the distance in seconds between the clock and the effective timestamp
\* (-1 when the effective timestamp is no number)
Skew ==
  IF EffectiveTimestamp.t # "num" THEN -1
  ELSE IF now >= EffectiveTimestamp.n THEN now - EffectiveTimestamp.n
  ELSE EffectiveTimestamp.n - now

\* the HMAC of the primary scheme for the last call's document, with the
\* serializer of the specification
ExpectedWebhookSignature ==
  JStr(createHmac(apiSecret,
         "data={" \o Serialize(OrElse(GetProp(CallDocument, "data").v, JObj(<<>>)))
           \o "}&nonce=" \o ToText(GetProp(CallDocument, "nonce").v)
           \o "&notifyType=" \o ToText(GetProp(CallDocument, "notifyType").v)
           \o "&timestamp=" \o ToText(EffectiveTimestamp)))

IsOrderCall == call.op \in {"createPayout", "createCollection"}

\* C1: the envelope generateSignature returns carries, as sign, the HMAC keyed
\* by the secret of "data={" + serialize(P) + "}&nonce=" + N + "&timestamp=" + T
\* for the nonce N and timestamp T of that same envelope.
C1_EnvelopeSignature ==
  (IsOrderCall /\ call.posts # <<>>) =>
    call.posts[1].data.sign =
      JStr(createHmac(apiSecret,
             "data={" \o Serialize(call.request) \o "}&nonce="
               \o ToText(call.posts[1].data.nonce)
               \o "&timestamp=" \o ToText(call.posts[1].data.timestamp)))

\* a payout request was signed and its envelope posted
C1_Witness ==
  /\ call.op = "createPayout"
  /\ ~call.raised
  /\ call.request = PayoutRequest
  /\ call.posts # <<>>
  /\ call.posts[1].data.nonce = JStr(call.nonce)

\* C2 (as claimed): for a body that parses as JSON and whose effective
\* timestamp passes the replay check, verifyWebhook returns true if and only
\* if the effective signature equals the HMAC of the primary string.
C2_PrimaryIff ==
  (call.op = "verifyWebhook" /\ CallBodyParses /\ Skew \in 0..ReplayWindow) =>
    (call.ret = JBool(TRUE) <=> EffectiveSignature = ExpectedWebhookSignature)

\* C3 (as claimed): for a JSON-parsable body, a skew of exactly 30 seconds
\* passes the replay check, and a skew of 31 seconds or more makes
\* verifyWebhook return false with no HMAC computed.
C3_ReplayBoundary ==
  (call.op = "verifyWebhook" /\ CallBodyParses) =>
    /\ (Skew = ReplayWindow => call.verify.path # "replay")
    /\ (Skew > ReplayWindow => call.ret = JBool(FALSE) /\ call.hmacs = <<>>)

\* C4 (as claimed): whenever verifyWebhook returns true, the effective
\* timestamp is a number within 30 seconds of the current time.
C4_AcceptedWithinWindow ==
  (call.op = "verifyWebhook" /\ call.ret = JBool(TRUE)) =>
    (Skew >= 0 /\ Skew <= ReplayWindow)

\* the last call's body is a well-formed document, signed by the holder of
\* the secret for its own fields, with a timestamp within the window, and
\* the call passes no signature and timestamp or the document's own
WellFormedFreshCall ==
  /\ CallBodyParses
  /\ \E f \in SentFields :
       /\ f[1].t = "num"
       /\ CallDocument = SignedDocument(apiSecret, f[1], f[2], f[3], f[4])
  /\ call.signature \in {JUndef, GetProp(CallDocument, "sign").v}
  /\ call.timestamp \in {JUndef, GetProp(CallDocument, "timestamp").v}
  /\ Skew \in 0..ReplayWindow

\* C5 (as claimed): for a well-formed, correctly signed, fresh document
\* verifyWebhook returns true and parseWebhook returns the event of the
\* document's own fields.
C5_ValidWebhookAccepted ==
  WellFormedFreshCall =>
    /\ (call.op = "verifyWebhook" => call.ret = JBool(TRUE))
    /\ (call.op = "parseWebhook" =>
          call.ret = WebhookEvent(GetProp(CallDocument, "sign").v,
                                  GetProp(CallDocument, "timestamp").v,
                                  GetProp(CallDocument, "nonce").v,
                                  GetProp(CallDocument, "notifyType").v,
                                  GetProp(CallDocument, "data").v))

\* C6 (as claimed): the accepted body with exactly one of data, nonce,
\* notifyType, timestamp changed, sign and arguments unchanged, is rejected.
C6_TamperRejected ==
  (call.op = "verifyWebhook" /\ call.changed # "none") => call.ret = JBool(FALSE)

\* the change made to the body shows in the string the primary scheme signs:
\* the data serializes differently, the nonce or notifyType has another text,
\* or the timestamp, read from the body because the call passes none, is
\* another number
ChangeAltersSignedString ==
  LET old == FieldsOf(JSONParse(call.original).v).v
      new == FieldsOf(CallDocument).v
  IN CASE call.changed = "timestamp" ->
            /\ ~Truthy(call.timestamp)
            /\ ToNumber(old[1]) # ToNumber(new[1])
       [] call.changed = "nonce" -> ToText(old[2]) # ToText(new[2])
       [] call.changed = "notifyType" -> ToText(old[3]) # ToText(new[3])
       [] call.changed = "data" -> Serialize(old[4]) # Serialize(new[4])
       [] OTHER -> FALSE

\* C6 (the part that holds): the tampered body is rejected whenever the
\* change shows in the signed string.
C6_TamperRejectedWhenSigned ==
  (call.op = "verifyWebhook" /\ call.changed # "none" /\ ChangeAltersSignedString) =>
    call.ret = JBool(FALSE)

\* a body accepted through its own sign and timestamp had its timestamp
\* changed and was rejected
C6_Witness ==
  /\ call.op = "verifyWebhook"
  /\ call.changed = "timestamp"
  /\ ChangeAltersSignedString
  /\ Skew \in 0..ReplayWindow
  /\ call.ret = JBool(FALSE)

IsEvent(x) == x.t = "event"

\* C7: verifyWebhook ends by returning a boolean and parseWebhook by returning
\* an event or null, never by raising; a signature mismatch, a replay-window
\* violation and a JSON parse failure come back as false or null.
C7_NeverRaises ==
  /\ (call.op = "verifyWebhook" =>
        /\ ~call.raised
        /\ call.ret \in {JBool(TRUE), JBool(FALSE)}
        /\ (call.verify.path = "replay" => call.ret = JBool(FALSE)))
  /\ (call.op = "parseWebhook" =>
        /\ ~call.raised
        /\ (IsEvent(call.ret) \/ call.ret = JNull)
        /\ (~CallBodyParses => call.ret = JNull)
        /\ (call.verify.path = "replay" => call.ret = JNull))

\* both operations came back from an exception caught inside them: the
\* TypeError of reading a field of the JSON value null
C7_Witness ==
  /\ call.op \in {"verifyWebhook", "parseWebhook"}
  /\ call.body = "null"
  /\ call.verify.path = "fallback"
  /\ ~call.raised

\* C8: parseWebhook returns an event only if the body is a JSON text and its
\* call of verifyWebhook returned true; it returns null for every body that
\* is no JSON text and whenever that call returned false.
C8_EventOnlyIfVerified ==
  call.op = "parseWebhook" =>
    /\ (call.ret # JNull => (CallBodyParses /\ call.verify.ret))
    /\ (~CallBodyParses => call.ret = JNull)
    /\ ((call.verify.path # "none" /\ ~call.verify.ret) => call.ret = JNull)

\* parseWebhook returned null for a body that is no JSON text although
\* verifyWebhook reports true for it
C8_Witness ==
  /\ call.op = "parseWebhook"
  /\ ~CallBodyParses
  /\ verifyWebhook(apiSecret, now, call.body, call.signature, call.timestamp).ret
  /\ call.ret = JNull

\* C9: for a body that is no JSON text verifyWebhook raises nothing and returns
\* true exactly when the signature passed equals the HMAC of the timestamp
\* passed followed directly by the raw body.
C9_FallbackResult ==
  (call.op = "verifyWebhook" /\ ~CallBodyParses) =>
    /\ ~call.raised
    /\ call.ret =
         JBool(call.signature =
                 JStr(createHmac(apiSecret, ToText(call.timestamp) \o call.body)))

\* a body that is no JSON text was accepted by the degraded scheme
C9_Witness ==
  /\ call.op = "verifyWebhook"
  /\ ~CallBodyParses
  /\ call.timestamp # JUndef
  /\ call.ret = JBool(TRUE)

\* C10 (as claimed): for every body that parses as JSON verifyWebhook decides
\* by the primary scheme, never by the HMAC of timestamp + body.
C10_FallbackOnlyUnparsed ==
  (call.op = "verifyWebhook" /\ CallBodyParses) => call.verify.path # "fallback"

\* the fields of an envelope (t is the tag of the model's values)
EnvelopeFields == {"t", "sign", "timestamp", "nonce", "data"}

\* the envelope e is the one createPayout / createCollection builds for the
\* payload request when the clock shows at
IsEnvelopeOf(e, request, at) ==
  /\ DOMAIN e = EnvelopeFields
  /\ e.sign.t = "str"
  /\ e.nonce.t = "str"
  /\ e.timestamp = JNum(at)
  /\ e.data = request

\* C11: the envelope createPayout and createCollection hand to the transport's
\* post has exactly the fields sign, timestamp, nonce and data, with timestamp
\* the clock in whole seconds when the call began and data the caller's
\* payload unchanged; it has no notifyType field.
C11_EnvelopeShape ==
  /\ \A i \in 1..Len(pending) :
       IsEnvelopeOf(pending[i].data, pending[i].request, pending[i].at)
  /\ IsOrderCall =>
       \A i \in 1..Len(call.posts) :
         IsEnvelopeOf(call.posts[i].data, call.request, call.at)

\* a collection request with a nested object was posted after the clock
\* had advanced
C11_Witness ==
  /\ call.op = "createCollection"
  /\ call.request = DataNested
  /\ call.posts # <<>>
  /\ call.at > Now0
  /\ call.posts[1].data.timestamp = JNum(call.at)

\* the call is a finished createPayout of a payout request
IsPayoutCall == call.op = "createPayout" /\ call.request \in PayoutRequests

\* C12 (as claimed): createPayout calls the transport's post exactly once,
\* with endpoint /v1/order/createPayout and a body equal to the request the
\* caller passed, and resolves to what post resolved to.
C12_PostsRequest ==
  IsPayoutCall =>
    /\ Len(call.posts) = 1
    /\ call.posts[1].endpoint = "/v1/order/createPayout"
    /\ call.posts[1].data = call.request
    /\ (~call.posts[1].result.rejected =>
          ~call.raised /\ call.ret = call.posts[1].result.value)

RECURSIVE Signable(_)
\* x is a value of a SignablePayload: a number, string, boolean, null, or a
\* mapping or sequence of such values
Signable(x) ==
  CASE x.t \in {"num", "str", "bool", "null"} -> TRUE
    [] x.t = "obj" -> \A i \in 1..Len(x.entries) : Signable(x.entries[i].v)
    [] x.t = "arr" -> \A i \in 1..Len(x.items) : Signable(x.items[i])
    [] OTHER -> FALSE

\* the last call applied formatDataForSignature to a SignablePayload
FormattedSignable ==
  call.op = "formatDataForSignature" /\ Signable(call.request)

\* C13 (as claimed): on every SignablePayload formatDataForSignature returns
\* the string of the reference serializer: key=value tokens in iteration
\* order joined by ", ", key={inner} for a mapping, key=[e1, e2] for a
\* sequence with mapping elements in {...}, strings verbatim.
C13_EqualsReference ==
  FormattedSignable => call.ret = JStr(Serialize(call.request))

\* the mapping of the two entries of p in the other order
Reordered(p) == JObj(<<p.entries[2], p.entries[1]>>)

\* p is a SignablePayload of two entries whose key=value tokens differ
TwoDifferentTokens(p) ==
  /\ Signable(p)
  /\ Len(p.entries) = 2
  /\ Serialize(JObj(<<p.entries[1]>>)) # Serialize(JObj(<<p.entries[2]>>))

\* C14 (as claimed): for a mapping of two entries with different tokens and
\* the mapping of the same entries in the other order, formatDataForSignature
\* returns different strings, and generateSignature with the same secret,
\* nonce and timestamp gives different signatures.
C14_OrderSensitive ==
  /\ (call.op = "formatDataForSignature" /\ TwoDifferentTokens(call.request)) =>
       /\ ~call.raised
       /\ ~formatDataForSignature(Reordered(call.request)).threw
       /\ call.ret # JStr(formatDataForSignature(Reordered(call.request)).s)
  /\ (call.op = "generateSignature" /\ TwoDifferentTokens(call.request)) =>
       /\ ~call.raised
       /\ ~generateSignature(apiSecret, call.at, call.nonce,
                             Reordered(call.request)).raised
       /\ call.ret.sign # generateSignature(apiSecret, call.at, call.nonce,
                                            Reordered(call.request)).ret.sign

\* C15 (as claimed): the serializer is total on SignablePayload: on every
\* mapping of numbers, strings, booleans, null, mappings and sequences of
\* such values formatDataForSignature returns a string and raises nothing.
C15_SerializerTotal ==
  FormattedSignable => (~call.raised /\ call.ret.t = "str")

\* C16 (as claimed): signing a payload that holds a value that is no number,
\* string, boolean, null, mapping or sequence fails with an error; no
\* envelope is produced and no HMAC is computed over a text of that value.
C16_InvalidPayloadRejected ==
  (call.op = "generateSignature" /\ ~Signable(call.request)) =>
    (call.raised /\ call.ret = JUndef /\ call.hmacs = <<>>)

\* C17 (as claimed): the signature verifyWebhook compares is the one the
\* caller passed whenever one is passed, else the document's sign; the
\* timestamp it checks and signs is the one the caller passed whenever one is
\* passed, else the document's timestamp, as a number; and parseWebhook
\* hands a signature and a timestamp it was passed to verifyWebhook unchanged.
C17_Resolution ==
  /\ (call.op \in {"verifyWebhook", "parseWebhook"} /\ CallBodyParses
        /\ call.verify.path # "none") =>
       /\ call.verify.providedSignature = EffectiveSignature
       /\ call.verify.providedTimestamp = EffectiveTimestamp
  /\ (call.op = "parseWebhook" /\ call.verify.path # "none") =>
       /\ (call.signature # JUndef => call.verify.signatureArg = call.signature)
       /\ (call.timestamp # JUndef => call.verify.timestampArg = call.timestamp)

\* the post p, made while other posts awaited their response, is the post of
\* its own call: the envelope holds the payload that was passed, the clock
\* value and the nonce of that call, the string that was signed is the one
\* the reference serializer gives for the payload as it is after signing,
\* and sign is its HMAC under the secret
PostAlone(p) ==
  /\ p.data.data = p.request
  /\ p.data.timestamp = JNum(p.at)
  /\ p.data.nonce = JStr(p.nonce)
  /\ p.hmacs = <<"data={" \o Serialize(p.data.data) \o "}&nonce=" \o p.nonce
                   \o "&timestamp=" \o ToString(p.at)>>
  /\ p.data.sign = JStr(createHmac(apiSecret, p.hmacs[1]))

\* the finished call has the result of the call alone. For verifyWebhook
\* called without a timestamp that is: for a body that holds a document,
\* true exactly when the document's timestamp is within the window of the
\* clock of the call and the signature passed (the document's sign when the
\* one passed is falsy) is the HMAC of the gateway's string for the
\* document; for any other body, true exactly when the signature passed is
\* the HMAC of the text undefined followed by the body. parseWebhook gives
\* the event of the document's fields when that holds of a document, else
\* null. An order call ends without a post exactly when its payload holds a
\* null element, with a TypeError; else it made one post, its own, and
\* settled as the transport answered that post.
CallAlone ==
  LET doc == CallDocument
      isDocument == CallBodyParses /\ doc.t = "obj"
      field(key) == GetProp(doc, key).v
      compared == IF Truthy(call.signature) THEN call.signature ELSE field("sign")
      fresh ==
        /\ field("timestamp").t = "num"
        /\ field("timestamp").n - call.at <= ReplayWindow
        /\ call.at - field("timestamp").n <= ReplayWindow
      accepted ==
        IF isDocument
        THEN /\ fresh
             /\ compared = JStr(createHmac(apiSecret,
                                  WebhookString(field("timestamp"), field("nonce"),
                                                field("notifyType"), field("data"))))
        ELSE call.signature = JStr(createHmac(apiSecret, "undefined" \o call.body))
      holdsNullItem ==
        \E i \in 1..Len(call.request.entries) :
          /\ call.request.entries[i].v.t = "arr"
          /\ \E j \in 1..Len(call.request.entries[i].v.items) :
               call.request.entries[i].v.items[j] = JNull
  IN  /\ call.op \in {"verifyWebhook", "parseWebhook"} =>
           /\ call.timestamp = JUndef
           /\ ~call.raised
      /\ call.op = "verifyWebhook" => call.ret = JBool(accepted)
      /\ call.op = "parseWebhook" =>
           call.ret = IF isDocument /\ accepted
                      THEN WebhookEvent(field("sign"), field("timestamp"), field("nonce"),
                                        field("notifyType"), field("data"))
                      ELSE JNull
      /\ IsOrderCall =>
           /\ call.posts = <<>> <=> holdsNullItem
           /\ call.posts = <<>> => call.raised /\ call.error = EntriesTypeError
           /\ call.posts # <<>> =>
                /\ Len(call.posts) = 1
                /\ PostAlone([request |-> call.request, nonce |-> call.nonce,
                              at |-> call.at, data |-> call.posts[1].data,
                              hmacs |-> call.hmacs])
                /\ call.raised = call.posts[1].result.rejected
                /\ call.ret = call.posts[1].result.value
                /\ call.error = call.posts[1].result.error

\* C18: across any sequence or interleaving of createPayout, createCollection,
\* verifyWebhook and parseWebhook calls the secret set by the constructor is
\* never modified, the payload passed to the signer is not modified (it
\* serializes again to the data string that was signed), and each call's
\* result is the one it gives alone with the same arguments, clock value and
\* nonce: every post that awaits its response and every finished call is
\* that of its own arguments, whatever else is in flight.
C18_NoRetainedState ==
  /\ [][apiSecret' = apiSecret]_vars
  /\ [](CallAlone /\ \A i \in 1..Len(pending) : PostAlone(pending[i]))

\* a post settled while a post made later, at a later clock value and with
\* another nonce, still awaits its response
C18_Witness ==
  /\ IsOrderCall
  /\ call.posts # <<>>
  /\ pending # <<>>
  /\ pending[1].at > call.at
  /\ pending[1].nonce # call.nonce
  /\ pending[1].op # call.op

\* C19: when the transport's post rejects, createPayout / createCollection
\* rejects with that same error: it yields no value, it made that one post
\* only and computed one signature only, and no further post of it awaits a
\* response.
C19_RejectionPropagates ==
  (IsOrderCall /\ call.posts # <<>> /\ call.posts[1].result.rejected) =>
    /\ call.raised
    /\ call.error = call.posts[1].result.error
    /\ call.ret = JUndef
    /\ Len(call.posts) = 1
    /\ Len(call.hmacs) = 1
    /\ pending = <<>>

\* createPayout rejected with the error the transport made of a 400 response
C19_Witness ==
  /\ call.op = "createPayout"
  /\ call.posts # <<>>
  /\ call.posts[1].result.rejected
  /\ call.raised
  /\ call.error = JError("API Error 400: Invalid symbol", 400)

\* C20 (as claimed): a signature generateSignature produced for an outbound
\* payload is never accepted by verifyWebhook for any webhook body: the
\* string verifyWebhook signs is never the string that was signed outbound.
C20_DomainSeparation ==
  (call.op = "verifyWebhook" /\ call.changed = "outbound") =>
    /\ call.ret = JBool(FALSE)
    /\ \A i \in 1..Len(call.hmacs) : call.hmacs[i] # call.original

\* C21 (as claimed): verifyWebhook reaches the signature comparison of its
\* primary path only with an effective timestamp that is a finite number
\* within 30 seconds of the clock; with no timestamp at all, or one that is
\* no number, the replay check rejects and no HMAC is computed.
C21_ComparisonNeedsTimestamp ==
  /\ (call.op = "verifyWebhook" /\ call.verify.path = "primary") =>
       /\ call.verify.providedTimestamp.t = "num"
       /\ ~AbsDiffExceeds(JNum(call.at), call.verify.providedTimestamp, ReplayWindow)
  /\ (call.op = "verifyWebhook" /\ CallBodyParses /\ CallDocument.t = "obj"
        /\ call.verify.providedTimestamp.t # "num") =>
       /\ call.verify.path = "replay"
       /\ call.hmacs = <<>>
       /\ call.ret = JBool(FALSE)

\* C22 (as claimed): every event parseWebhook returns carries as sign the
\* signature verifyWebhook compared and as timestamp (read as a number) the
\* timestamp it checked and signed, also when the caller supplies a
\* signature or timestamp that differs from the body's own.
C22_EventCarriesChecked ==
  (call.op = "parseWebhook" /\ IsEvent(call.ret)) =>
    /\ call.ret.sign = call.verify.providedSignature
    /\ ToNumber(call.ret.timestamp) = ToNumber(call.verify.providedTimestamp)

\* C22 (amended): every event parseWebhook returns carries the parsed
\* document's own sign, timestamp, nonce, notifyType and data, whatever
\* signature and timestamp the caller supplies; its sign is the signature
\* compared when the caller supplies no signature, and its timestamp (read as
\* a number) the timestamp checked when the caller supplies no timestamp.
C22_EventOfDocument ==
  (call.op = "parseWebhook" /\ IsEvent(call.ret)) =>
    /\ call.ret = WebhookEvent(GetProp(CallDocument, "sign").v,
                               GetProp(CallDocument, "timestamp").v,
                               GetProp(CallDocument, "nonce").v,
                               GetProp(CallDocument, "notifyType").v,
                               GetProp(CallDocument, "data").v)
    /\ (call.signature = JUndef => call.ret.sign = call.verify.providedSignature)
    /\ (call.timestamp = JUndef =>
          ToNumber(call.ret.timestamp) = ToNumber(call.verify.providedTimestamp))

\* an event whose sign is not the signature passed and compared and whose
\* timestamp is not the timestamp passed and checked
C22_Witness ==
  /\ call.op = "parseWebhook"
  /\ IsEvent(call.ret)
  /\ call.signature # JUndef
  /\ call.verify.providedSignature = call.signature
  /\ call.ret.sign # call.signature
  /\ call.timestamp # JUndef
  /\ call.verify.providedTimestamp = ToNumber(call.timestamp)
  /\ ToNumber(call.ret.timestamp) # ToNumber(call.timestamp)

\* C23 (as claimed): a webhook (body, signature, timestamp) that verifyWebhook
\* accepted is accepted again on every later presentation while the effective
\* timestamp is within 30 seconds of the clock, and rejected on every
\* presentation after that.
C23_ReplayedWithinWindowOnly ==
  (call.op = "verifyWebhook" /\ call.changed = "replayed") =>
    (call.ret = JBool(TRUE) <=> Skew \in 0..ReplayWindow)

\* the text holds one of the characters the serializer writes between and
\* around tokens
HoldsSeparator(s) ==
  \E i \in 1..Len(s) : SubSeq(s, i, i) \in {",", " ", "=", "{", "}", "[", "]"}

RECURSIVE Unambiguous(_)
\* the value of an entry is written so that it can be read back: no string
\* and no key of a nested mapping of it, at any depth, holds a separator
\* character, and no sequence of it holds an empty string or a sequence
Unambiguous(x) ==
  CASE x.t = "str" -> ~HoldsSeparator(x.s)
    [] x.t = "obj" ->
         \A i \in 1..Len(x.entries) :
           ~HoldsSeparator(x.entries[i].k) /\ Unambiguous(x.entries[i].v)
    [] x.t = "arr" ->
         \A i \in 1..Len(x.items) :
           /\ x.items[i].t # "arr"
           /\ x.items[i] # JStr("")
           /\ Unambiguous(x.items[i])
    [] OTHER -> TRUE

RECURSIVE StringsSeparatorFree(_)
\* no string value of x, at any depth, holds a separator character
StringsSeparatorFree(x) ==
  CASE x.t = "str" -> ~HoldsSeparator(x.s)
    [] x.t = "obj" -> \A i \in 1..Len(x.entries) : StringsSeparatorFree(x.entries[i].v)
    [] x.t = "arr" -> \A i \in 1..Len(x.items) : StringsSeparatorFree(x.items[i])
    [] OTHER -> TRUE

RECURSIVE TextEqual(_, _)
\* x and y are equal value for value up to the text of their scalars
TextEqual(x, y) ==
  CASE x.t = "obj" ->
         /\ y.t = "obj"
         /\ Len(x.entries) = Len(y.entries)
         /\ \A i \in 1..Len(x.entries) :
              /\ x.entries[i].k = y.entries[i].k
              /\ TextEqual(x.entries[i].v, y.entries[i].v)
    [] x.t = "arr" ->
         /\ y.t = "arr"
         /\ Len(x.items) = Len(y.items)
         /\ \A i \in 1..Len(x.items) : TextEqual(x.items[i], y.items[i])
    [] OTHER -> y.t \notin {"obj", "arr"} /\ ToText(x) = ToText(y)

\* values a payload is compared with: the scalars, strings that read as a
\* number, as null and as a boolean, a string that holds separators, nested
\* mappings, one with a key that holds separators, and sequences, among them
\* one of an empty string and one of a sequence
AlikeValues ==
  Scalars \cup InnerMappings
    \cup {JStr("1"), JStr("null"), JStr("true"), JStr("1, X"),
          JObj(<<KV("a", JStr("1"))>>), JObj(<<KV("a=1, b", JNum(2))>>),
          JArr(<<>>), JArr(<<JNum(1)>>), JArr(<<JStr("1")>>),
          JArr(<<JObj(<<KV("a", JNum(1))>>)>>), JArr(<<JNum(1), JStr("X")>>),
          JArr(<<JStr("")>>), JArr(<<JArr(<<JNum(1)>>)>>), JArr(<<JStr("1, X")>>)}

\* the mappings with the keys of p, in the same order, over these values;
\* of two entries, one is among the values of a second entry or a string
\* that reads as one
AlikeOf(p) ==
  LET few == SecondValues \cup {JStr("1"), JStr("null")}
  IN  IF Len(p.entries) = 0 THEN {p}
      ELSE IF Len(p.entries) = 1
      THEN {JObj(<<KV(p.entries[1].k, v)>>) : v \in AlikeValues}
      ELSE {JObj(<<KV(p.entries[1].k, v), KV(p.entries[2].k, w)>>) :
              v \in AlikeValues, w \in few}
             \cup {JObj(<<KV(p.entries[1].k, w), KV(p.entries[2].k, v)>>) :
                     v \in AlikeValues, w \in few}

\* q is serialized to the string the last call returned
SameStringAs(q) ==
  LET r == formatDataForSignature(q)
  IN  ~r.threw /\ JStr(r.s) = call.ret

\* C24 (as claimed): for two mappings with the same keys in the same order
\* whose string values hold no separator character, formatDataForSignature
\* returns the same string only if the two are equal value for value.
C24_DistinguishesValues ==
  (FormattedSignable /\ ~call.raised /\ StringsSeparatorFree(call.request)) =>
    \A q \in AlikeOf(call.request) :
      (StringsSeparatorFree(q) /\ SameStringAs(q)) => q = call.request

\* C24 (amended): for two mappings with the same keys in the same order
\* whose values hold no separator character in a string or in the key of a
\* nested mapping, and no empty string and no sequence inside a sequence,
\* formatDataForSignature returns the same string only if the two are equal
\* value for value up to the text of their scalars.
C24_DistinguishesTexts ==
  (/\ FormattedSignable
   /\ ~call.raised
   /\ \A i \in 1..Len(call.request.entries) : Unambiguous(call.request.entries[i].v)) =>
    \A q \in AlikeOf(call.request) :
      (SameStringAs(q) /\ \A i \in 1..Len(q.entries) : Unambiguous(q.entries[i].v))
        => TextEqual(q, call.request)

\* the mapping { amount: 1 } was serialized to the string that
\* { amount: "1" } gives as well
C24_Witness ==
  /\ call.op = "formatDataForSignature"
  /\ call.request = JObj(<<KV("amount", JNum(1))>>)
  /\ call.ret = JStr("amount=1")
  /\ SameStringAs(JObj(<<KV("amount", JStr("1"))>>))

=============================================================================
